---- MODULE Spec2Model ----
(***************************************************************************)
(* doc2md: document conversion pipeline (src/doc2md/converter.py).         *)
(*                                                                         *)
(*   SpecUrl   - convert_url, the remote acquisition strategy              *)
(*   SpecNorm  - post_process_markdown applied once and twice              *)
(*   SpecPdf   - convert_pdf over a paginated document                     *)
(*   SpecTable - convert_table over a word-processor table                 *)
(*   SpecHtml  - convert_html over a parsed markup tree                    *)
(*                                                                         *)
(* Strings are sequences of one-character strings.                         *)
(***************************************************************************)
EXTENDS Integers, Sequences, FiniteSets, TLC

VARIABLES
    \* ---- convert_url ----
    pc,                  \* position inside convert_url
    use_fallback,        \* argument
    prefer_markdown_new, \* argument
    requests,            \* GET requests issued so far, in order
    resp,                \* what client.get(url) of the direct path produced
    e,                   \* str(e) of the exception caught at line 238
    fallback_error,      \* str(fallback_error) of the one caught at line 243
    outcome,             \* what the call returned or raised
    \* ---- post_process_markdown ----
    npc, text, once, twice,
    \* ---- convert_pdf ----
    ppc, doc, page_num, markdown_parts, pdf_result,
    \* ---- convert_table ----
    tpc, table, i, rows, table_md,
    \* ---- convert_html ----
    hpc,                 \* position inside convert_html
    soup,                \* the parsed tree: its elements in document order
    alive,               \* the elements not decomposed
    main_content,        \* the element chosen as root (0: the soup itself)
    markdown             \* the elements whose markup is converted

vars == << pc, use_fallback, prefer_markdown_new, requests, resp, e, fallback_error,
           outcome, npc, text, once, twice,
           ppc, doc, page_num, markdown_parts, pdf_result,
           tpc, table, i, rows, table_md,
           hpc, soup, alive, main_content, markdown >>

urlVars == << pc, use_fallback, prefer_markdown_new, requests, resp, e,
             fallback_error, outcome >>
normVars == << npc, text, once, twice >>
pdfVars == << ppc, doc, page_num, markdown_parts, pdf_result >>
tableVars == << tpc, table, i, rows, table_md >>
htmlVars == << hpc, soup, alive, main_content, markdown >>

NL == "\n"
SP == " "
TAB == "\t"

\* no exception caught yet
NoError == <<>>

\* nothing received / nothing returned yet
Nothing == [kind |-> "none"]

(***************************************************************************)
(* convert_url                                                             *)
(***************************************************************************)

\* the length the quality check of line 235 compares against
QualityThreshold == 100

\* HTTP statuses a server answers with
Statuses == {200, 404, 500}

\* httpx Response.is_success, the test behind raise_for_status
IsSuccess(status) == status >= 200 /\ status <= 299

\* declared content types of the direct response ("" when the header is absent)
ContentTypes == {"text/markdown", "application/pdf", "text/html", ""}

\* lengths of convert_html's result around the threshold
HtmlLens == {0, 99, 100, 101, 250}

\* exceptions client.get raises (timeout, connection failure)
NetworkErrors == {"ConnectError", "ReadTimeout"}

\* client.get(url) of the direct path: an exception or a response
DirectGets ==
    [kind : {"exception"}, error : NetworkErrors]
    \cup [kind : {"response"}, status : Statuses, content_type : ContentTypes,
          html_len : HtmlLens, pdf_ok : BOOLEAN]

\* client.get(markdown_new_url): an exception or a response
FallbackGets ==
    [kind : {"exception"}, error : {"FallbackConnectError"}]
    \cup [kind : {"response"}, status : Statuses, marker : BOOLEAN]

Return(src, value) == [kind |-> "return", src |-> src, value |-> value]
Raise(msg) == [kind |-> "raise", msg |-> msg]

\* convert_url_via_markdown_new: the value returned or the exception raised
\* for one answer of the service
ViaMarkdownNew(g) ==
    IF g.kind = "exception" THEN Raise(<<g.error>>)
    ELSE IF ~IsSuccess(g.status) THEN Raise(<<"HTTPStatusError">>)
    ELSE IF g.marker THEN Return("fallback", "after_marker_stripped")
    ELSE Return("fallback", "whole_body")

\* a quality check that lets a result of exactly the threshold length pass
QualityOk_AtLeast(len) == len > 0 /\ len >= QualityThreshold

\* the quality check of line 235: result and len(result) > 100
QualityOk(len) == len > 0 /\ len > QualityThreshold

\* body of the try block of the direct path (lines 220-237) for one answer
DirectAttempt(g) ==
    IF g.kind = "exception" THEN Raise(<<g.error>>)
    ELSE IF g.content_type = "text/markdown" THEN Return("direct_markdown", g.status)
    ELSE IF g.content_type = "application/pdf"
         THEN IF g.pdf_ok THEN Return("direct_pdf", g.status)
              ELSE Raise(<<"FileDataError">>)
    ELSE IF QualityOk(g.html_len) THEN Return("direct_html", g.html_len)
    ELSE Raise(<<"Conversion result too short">>)

\* a merged message that drops the direct error
BothFailed_FallbackOnly(direct, fallback) ==
    <<"Both local and fallback conversion failed: ">> \o fallback

\* the message built at line 244
BothFailed(direct, fallback) ==
    <<"Both local and fallback conversion failed: ">> \o direct \o <<" / ">> \o fallback

InitUrl ==
    /\ pc = "start"
    /\ use_fallback \in BOOLEAN
    /\ prefer_markdown_new \in BOOLEAN
    /\ requests = <<>>
    /\ resp = Nothing
    /\ e = NoError
    /\ fallback_error = NoError
    /\ outcome = Nothing
    \* the other operations are not running
    /\ npc = "idle"
    /\ text = <<>>
    /\ once = <<>>
    /\ twice = <<>>
    /\ ppc = "idle"
    /\ doc = <<>>
    /\ page_num = 1
    /\ markdown_parts = <<>>
    /\ pdf_result = <<>>
    /\ tpc = "idle"
    /\ table = <<>>
    /\ i = 0
    /\ rows = <<>>
    /\ table_md = <<>>
    /\ hpc = "idle"
    /\ soup = <<>>
    /\ alive = {}
    /\ main_content = 0
    /\ markdown = <<>>

\* lines 212-214: the request to markdown.new made first when preferred
PreferRequest ==
    /\ pc = "start"
    /\ prefer_markdown_new
    /\ requests' = Append(requests, "markdown_new")
    /\ pc' = "prefer_wait"
    /\ UNCHANGED << use_fallback, prefer_markdown_new, resp, e, fallback_error, outcome >>
    /\ UNCHANGED << normVars, pdfVars, tableVars, htmlVars >>

\* lines 214-216: its result is returned, its exception is swallowed
PreferResponse ==
    /\ pc = "prefer_wait"
    /\ \E g \in FallbackGets :
         LET r == ViaMarkdownNew(g) IN
         IF r.kind = "return"
         THEN /\ outcome' = r
              /\ pc' = "done"
         ELSE /\ outcome' = outcome
              /\ pc' = "local"
    /\ UNCHANGED << use_fallback, prefer_markdown_new, requests, resp, e, fallback_error >>
    /\ UNCHANGED << normVars, pdfVars, tableVars, htmlVars >>

\* lines 219-223: the direct request
DirectRequest ==
    /\ \/ pc = "start" /\ ~prefer_markdown_new
       \/ pc = "local"
    /\ requests' = Append(requests, "direct")
    /\ pc' = "direct_wait"
    /\ UNCHANGED << use_fallback, prefer_markdown_new, resp, e, fallback_error, outcome >>
    /\ UNCHANGED << normVars, pdfVars, tableVars, htmlVars >>

\* lines 223-238: dispatch on the content type, or catch the exception
DirectResponse ==
    /\ pc = "direct_wait"
    /\ \E g \in DirectGets :
         LET r == DirectAttempt(g) IN
         /\ resp' = g
         /\ IF r.kind = "return"
            THEN /\ outcome' = r
                 /\ e' = e
                 /\ pc' = "done"
            ELSE /\ outcome' = outcome
                 /\ e' = r.msg
                 /\ pc' = "except"
    /\ UNCHANGED << use_fallback, prefer_markdown_new, requests, fallback_error >>
    /\ UNCHANGED << normVars, pdfVars, tableVars, htmlVars >>

\* a re-raise that wraps the caught exception in a new message
Reraise_Wrapped ==
    /\ pc = "except"
    /\ ~use_fallback
    /\ outcome' = Raise(<<"Conversion failed: ">> \o e)
    /\ pc' = "done"
    /\ UNCHANGED << use_fallback, prefer_markdown_new, requests, resp, e, fallback_error >>
    /\ UNCHANGED << normVars, pdfVars, tableVars, htmlVars >>

\* lines 239, 245: without fallback the caught exception is re-raised
Reraise ==
    /\ pc = "except"
    /\ ~use_fallback
    /\ outcome' = Raise(e)
    /\ pc' = "done"
    /\ UNCHANGED << use_fallback, prefer_markdown_new, requests, resp, e, fallback_error >>
    /\ UNCHANGED << normVars, pdfVars, tableVars, htmlVars >>

\* lines 239-242: the request to markdown.new after the direct failure
FallbackRequest ==
    /\ pc = "except"
    /\ use_fallback
    /\ requests' = Append(requests, "markdown_new")
    /\ pc' = "fallback_wait"
    /\ UNCHANGED << use_fallback, prefer_markdown_new, resp, e, fallback_error, outcome >>
    /\ UNCHANGED << normVars, pdfVars, tableVars, htmlVars >>

\* lines 242-244: its result is returned, its failure raises the merged error
FallbackResponse ==
    /\ pc = "fallback_wait"
    /\ \E g \in FallbackGets :
         LET r == ViaMarkdownNew(g) IN
         IF r.kind = "return"
         THEN /\ outcome' = r
              /\ fallback_error' = fallback_error
         ELSE /\ outcome' = Raise(BothFailed(e, r.msg))
              /\ fallback_error' = r.msg
    /\ pc' = "done"
    /\ UNCHANGED << use_fallback, prefer_markdown_new, requests, resp, e >>
    /\ UNCHANGED << normVars, pdfVars, tableVars, htmlVars >>

NextUrl ==
    \/ PreferRequest
    \/ PreferResponse
    \/ DirectRequest
    \/ DirectResponse
    \/ Reraise
    \/ FallbackRequest
    \/ FallbackResponse

(***************************************************************************)
(* String helpers (str methods and the regular expressions of re.sub).     *)
(***************************************************************************)

\* the characters \s, str.strip and str.rstrip treat as whitespace
IsSpace(c) == c \in {SP, TAB, NL}

\* length of the longest run of characters of set S starting at index k
RECURSIVE RunLen(_, _, _)
RunLen(s, k, S) ==
    IF k > Len(s) \/ s[k] \notin S THEN 0 ELSE 1 + RunLen(s, k + 1, S)

\* str.strip()
RECURSIVE LStrip(_)
LStrip(s) == IF s # <<>> /\ IsSpace(Head(s)) THEN LStrip(Tail(s)) ELSE s

\* str.rstrip()
RECURSIVE RStrip(_)
RStrip(s) ==
    IF s # <<>> /\ IsSpace(s[Len(s)]) THEN RStrip(SubSeq(s, 1, Len(s) - 1)) ELSE s

Strip(s) == LStrip(RStrip(s))

\* str.split("\n"): always at least one line
RECURSIVE SplitLines(_)
SplitLines(s) ==
    LET k == RunLen(s, 1, {c \in {s[j] : j \in 1..Len(s)} : c # NL})
    IN IF k = Len(s) THEN << s >>
       ELSE << SubSeq(s, 1, k) >> \o SplitLines(SubSeq(s, k + 2, Len(s)))

\* sep.join(parts)
RECURSIVE Join(_, _)
Join(parts, sep) ==
    IF parts = <<>> THEN <<>>
    ELSE IF Len(parts) = 1 THEN parts[1]
    ELSE parts[1] \o sep \o Join(Tail(parts), sep)

\* re.sub(r"\n{3,}", "\n\n", s) from index k on
RECURSIVE CollapseNewlines(_, _)
CollapseNewlines(s, k) ==
    IF k > Len(s) THEN <<>>
    ELSE IF s[k] = NL
         THEN LET n == RunLen(s, k, {NL})
              IN (IF n >= 3 THEN << NL, NL >> ELSE SubSeq(s, k, k + n - 1))
                 \o CollapseNewlines(s, k + n)
    ELSE << s[k] >> \o CollapseNewlines(s, k + 1)

\* re.sub(r"\n\s*-\s+", "\n- ", s) from index k on
RECURSIVE FixBullets(_, _)
FixBullets(s, k) ==
    IF k > Len(s) THEN <<>>
    ELSE LET d == k + 1 + RunLen(s, k + 1, {SP, TAB, NL})   \* where "-" must be
             n == RunLen(s, d + 1, {SP, TAB, NL})           \* what \s+ takes
         IN IF s[k] = NL /\ d <= Len(s) /\ s[d] = "-" /\ n >= 1
            THEN << NL, "-", SP >> \o FixBullets(s, d + 1 + n)
            ELSE << s[k] >> \o FixBullets(s, k + 1)

\* "\n".join(line.rstrip() for line in s.split("\n"))
RstripLines(s) ==
    LET lines == SplitLines(s)
    IN Join([k \in 1..Len(lines) |-> RStrip(lines[k])], << NL >>)

\* re.sub(r"[ \t]+", " ", s) from index k on
RECURSIVE SquashBlanks(_, _)
SquashBlanks(s, k) ==
    IF k > Len(s) THEN <<>>
    ELSE IF s[k] \in {SP, TAB}
         THEN << SP >> \o SquashBlanks(s, k + RunLen(s, k, {SP, TAB}))
    ELSE << s[k] >> \o SquashBlanks(s, k + 1)

clean_text(s) == Strip(CollapseNewlines(SquashBlanks(s, 1), 1))

post_process_markdown(s) ==
    Strip(RstripLines(FixBullets(CollapseNewlines(s, 1), 1)))

(***************************************************************************)
(* post_process_markdown, applied to a text and to its own output          *)
(***************************************************************************)

\* longest input text
MaxLen == 7

NormChars == {NL, SP, TAB, "-", "a"}

NormTexts == UNION {[1..n -> NormChars] : n \in 0..MaxLen}

InitNorm ==
    /\ npc = "input"
    /\ text \in NormTexts
    /\ once = <<>>
    /\ twice = <<>>
    \* the other operations are not running
    /\ pc = "idle"
    /\ use_fallback = TRUE
    /\ prefer_markdown_new = FALSE
    /\ requests = <<>>
    /\ resp = Nothing
    /\ e = NoError
    /\ fallback_error = NoError
    /\ outcome = Nothing
    /\ ppc = "idle"
    /\ doc = <<>>
    /\ page_num = 1
    /\ markdown_parts = <<>>
    /\ pdf_result = <<>>
    /\ tpc = "idle"
    /\ table = <<>>
    /\ i = 0
    /\ rows = <<>>
    /\ table_md = <<>>
    /\ hpc = "idle"
    /\ soup = <<>>
    /\ alive = {}
    /\ main_content = 0
    /\ markdown = <<>>

Normalize ==
    /\ npc = "input"
    /\ once' = post_process_markdown(text)
    /\ npc' = "once"
    /\ UNCHANGED << text, twice >>
    /\ UNCHANGED << urlVars, pdfVars, tableVars, htmlVars >>

NormalizeAgain ==
    /\ npc = "once"
    /\ twice' = post_process_markdown(once)
    /\ npc' = "twice"
    /\ UNCHANGED << text, once >>
    /\ UNCHANGED << urlVars, pdfVars, tableVars, htmlVars >>

NextNorm ==
    \/ Normalize
    \/ NormalizeAgain

(***************************************************************************)
(* convert_pdf                                                             *)
(***************************************************************************)

\* most pages of a document
MaxPages == 3

\* page.get_text("text") of one page
PageTexts ==
    { <<>>,
      << SP, NL >>,
      << "a" >>,
      << "-", SP, "b", TAB, SP, "b", NL, NL, NL, "a" >> }

Documents == UNION {[1..n -> PageTexts] : n \in 0..MaxPages}

\* str(page_num)
Str(n) == << "1", "2", "3", "4", "5", "6", "7", "8", "9" >>[n]

\* f"\n---\n*Page {page_num}*\n" of line 41
PageSeparator(n) ==
    << NL, "-", "-", "-", NL, "*", "P", "a", "g", "e", SP >> \o << Str(n) >> \o << "*", NL >>

\* a separator test that also fires for page 1
NeedsSeparator_Always(n) == n >= 1

\* the test of line 40
NeedsSeparator(n) == n > 1

InitPdf ==
    /\ ppc = "loop"
    /\ doc \in Documents
    /\ page_num = 1
    /\ markdown_parts = <<>>
    /\ pdf_result = <<>>
    \* the other operations are not running
    /\ pc = "idle"
    /\ use_fallback = TRUE
    /\ prefer_markdown_new = FALSE
    /\ requests = <<>>
    /\ resp = Nothing
    /\ e = NoError
    /\ fallback_error = NoError
    /\ outcome = Nothing
    /\ npc = "idle"
    /\ text = <<>>
    /\ once = <<>>
    /\ twice = <<>>
    /\ tpc = "idle"
    /\ table = <<>>
    /\ i = 0
    /\ rows = <<>>
    /\ table_md = <<>>
    /\ hpc = "idle"
    /\ soup = <<>>
    /\ alive = {}
    /\ main_content = 0
    /\ markdown = <<>>

\* lines 34-45: one iteration of the loop over the pages
PdfPage ==
    /\ ppc = "loop"
    /\ page_num <= Len(doc)
    /\ markdown_parts' =
         IF Strip(doc[page_num]) # <<>>
         THEN markdown_parts
              \o (IF NeedsSeparator(page_num) THEN << PageSeparator(page_num) >> ELSE <<>>)
              \o << clean_text(doc[page_num]) >>
         ELSE markdown_parts
    /\ page_num' = page_num + 1
    /\ UNCHANGED << ppc, doc, pdf_result >>
    /\ UNCHANGED << urlVars, normVars, tableVars, htmlVars >>

\* lines 47-50: join the parts and post-process
PdfFinish ==
    /\ ppc = "loop"
    /\ page_num > Len(doc)
    /\ pdf_result' = post_process_markdown(Join(markdown_parts, << NL, NL >>))
    /\ ppc' = "done"
    /\ UNCHANGED << doc, page_num, markdown_parts >>
    /\ UNCHANGED << urlVars, normVars, tableVars, htmlVars >>

NextPdf ==
    \/ PdfPage
    \/ PdfFinish

(***************************************************************************)
(* convert_table                                                           *)
(***************************************************************************)

\* most rows of a table
MaxRows == 3

\* most cells of a row
MaxWidth == 2

\* cell.text of one cell
CellTexts == { << SP, "a", "|" >>, << "-", "-", "-" >> }

TableRows == UNION {[1..w -> CellTexts] : w \in 0..MaxWidth}

Tables == UNION {[1..n -> TableRows] : n \in 0..MaxRows}

\* str.replace("|", "\\|")
RECURSIVE EscapePipes(_)
EscapePipes(s) ==
    IF s = <<>> THEN <<>>
    ELSE (IF Head(s) = "|" THEN << "\\", "|" >> ELSE << Head(s) >>) \o EscapePipes(Tail(s))

\* line 121
Cells(row) == [k \in 1..Len(row) |-> EscapePipes(Strip(row[k]))]

\* line 122
RowLine(cells) == << "|", SP >> \o Join(cells, << SP, "|", SP >>) \o << SP, "|" >>

\* line 125
SeparatorLine(cells) ==
    << "|" >> \o Join([k \in 1..Len(cells) |-> << "-", "-", "-" >>], << "|" >>) \o << "|" >>

\* a header test that is off by one row
IsHeader_SecondRow(k) == k = 1

\* the test of line 123
IsHeader(k) == k = 0

InitTable ==
    /\ tpc = "loop"
    /\ table \in Tables
    /\ i = 0
    /\ rows = <<>>
    /\ table_md = <<>>
    \* the other operations are not running
    /\ pc = "idle"
    /\ use_fallback = TRUE
    /\ prefer_markdown_new = FALSE
    /\ requests = <<>>
    /\ resp = Nothing
    /\ e = NoError
    /\ fallback_error = NoError
    /\ outcome = Nothing
    /\ npc = "idle"
    /\ text = <<>>
    /\ once = <<>>
    /\ twice = <<>>
    /\ ppc = "idle"
    /\ doc = <<>>
    /\ page_num = 1
    /\ markdown_parts = <<>>
    /\ pdf_result = <<>>
    /\ hpc = "idle"
    /\ soup = <<>>
    /\ alive = {}
    /\ main_content = 0
    /\ markdown = <<>>

\* lines 120-125: one iteration of the loop over the rows
TableRow ==
    /\ tpc = "loop"
    /\ i < Len(table)
    /\ LET cells == Cells(table[i + 1])
       IN rows' = rows \o << RowLine(cells) >>
                  \o (IF IsHeader(i) THEN << SeparatorLine(cells) >> ELSE <<>>)
    /\ i' = i + 1
    /\ UNCHANGED << tpc, table, table_md >>
    /\ UNCHANGED << urlVars, normVars, pdfVars, htmlVars >>

\* line 126
TableFinish ==
    /\ tpc = "loop"
    /\ i >= Len(table)
    /\ table_md' = Join(rows, << NL >>)
    /\ tpc' = "done"
    /\ UNCHANGED << table, i, rows >>
    /\ UNCHANGED << urlVars, normVars, pdfVars, htmlVars >>

NextTable ==
    \/ TableRow
    \/ TableFinish

(***************************************************************************)
(* convert_html                                                            *)
(***************************************************************************)

\* most elements of a parsed tree
MaxNodes == 3

\* the tag names of line 144
RemovedTags == {"script", "style", "nav", "footer", "header", "aside"}

\* the alternatives of the pattern of line 151
ClassWords ==
    { << "c", "o", "n", "t", "e", "n", "t" >>,
      << "a", "r", "t", "i", "c", "l", "e" >>,
      << "p", "o", "s", "t" >>,
      << "e", "n", "t", "r", "y" >> }

\* an element without a class attribute
NoClass == <<>>

\* the elements a tree is built from: tag and class attribute
Elements ==
    { [tag |-> "main", class |-> NoClass],
      [tag |-> "article", class |-> NoClass],
      [tag |-> "body", class |-> NoClass],
      [tag |-> "div", class |-> NoClass],
      [tag |-> "nav", class |-> NoClass],
      [tag |-> "div", class |-> << "b", "l", "o", "g", "-", "p", "o", "s", "t" >>],
      [tag |-> "div", class |-> << "P", "O", "S", "T", "-", "b", "o", "d", "y" >>],
      [tag |-> "aside", class |-> << "c", "o", "n", "t", "e", "n", "t" >>] }

\* a tree in document order: every element's parent precedes it (0: the soup)
\* and is the previous element or one of its ancestors
RECURSIVE Chain(_, _)
Chain(parents, k) == IF k = 0 THEN {0} ELSE {k} \cup Chain(parents, parents[k])

Shapes(n) ==
    {ps \in [1..n -> 0..(n - 1)] :
        \A k \in 1..n : /\ ps[k] < k
                        /\ k > 1 => ps[k] \in Chain(ps, k - 1)}

\* the tree of shape ps whose elements are els
Tree(els, ps) ==
    [k \in 1..Len(els) |-> [tag |-> els[k].tag, class |-> els[k].class,
                            parent |-> ps[k]]]

\* k and its ancestors in tree t, the soup (0) excluded
RECURSIVE SelfAndAncestors(_, _)
SelfAndAncestors(t, k) ==
    IF k = 0 THEN {} ELSE {k} \cup SelfAndAncestors(t, t[k].parent)

\* re.compile(pattern).search(s) for a pattern of literal alternatives
Search(words, s) ==
    \E w \in words : \E k \in 1..(Len(s) - Len(w) + 1) :
        SubSeq(s, k, k + Len(w) - 1) = w

\* the lower-case form of the capital letters class names are written with
LowerChar(c) ==
    CASE c = "P" -> "p" [] c = "O" -> "o" [] c = "S" -> "s" [] c = "T" -> "t"
      [] c = "C" -> "c" [] OTHER -> c

Lower(s) == [k \in 1..Len(s) |-> LowerChar(s[k])]

\* a class test compiled with re.IGNORECASE
ClassMatches_IgnoreCase(class) == Search(ClassWords, Lower(class))

\* the class_ filter of line 151: the compiled pattern searched in the value
ClassMatches(class) == Search(ClassWords, class)

\* soup.find(...): the first element in document order that is still in the
\* tree and passes the test, 0 (None) when there is none
First(S) == IF S = {} THEN 0 ELSE CHOOSE k \in S : \A j \in S : k <= j

FindTag(t, live, tag) == First({k \in live : t[k].tag = tag})

FindClass(t, live) == First({k \in live : ClassMatches(t[k].class)})

\* a or b: b only when a is None
OrElse(a, b) == IF a # 0 THEN a ELSE b

\* lines 148-154
SelectMainContent(t, live) ==
    OrElse(FindTag(t, live, "main"),
    OrElse(FindTag(t, live, "article"),
    OrElse(FindClass(t, live),
    OrElse(FindTag(t, live, "body"), 0))))

\* str(main_content): the elements of the chosen subtree, in document order
Subtree(t, live, root) ==
    SelectSeq([k \in 1..Len(t) |-> k],
              LAMBDA k : k \in live /\ (root = 0 \/ root \in SelfAndAncestors(t, k)))

InitHtml ==
    /\ hpc = "parsed"
    /\ \E n \in 0..MaxNodes : \E ps \in Shapes(n) : \E els \in [1..n -> Elements] :
         soup = Tree(els, ps)
    /\ alive = 1..Len(soup)
    /\ main_content = 0
    /\ markdown = <<>>
    \* the other operations are not running
    /\ pc = "idle"
    /\ use_fallback = TRUE
    /\ prefer_markdown_new = FALSE
    /\ requests = <<>>
    /\ resp = Nothing
    /\ e = NoError
    /\ fallback_error = NoError
    /\ outcome = Nothing
    /\ npc = "idle"
    /\ text = <<>>
    /\ once = <<>>
    /\ twice = <<>>
    /\ ppc = "idle"
    /\ doc = <<>>
    /\ page_num = 1
    /\ markdown_parts = <<>>
    /\ pdf_result = <<>>
    /\ tpc = "idle"
    /\ table = <<>>
    /\ i = 0
    /\ rows = <<>>
    /\ table_md = <<>>

\* lines 144-145: every listed element is decomposed, with all it contains
Decompose ==
    /\ hpc = "parsed"
    /\ alive' = {k \in alive :
                   \A a \in SelfAndAncestors(soup, k) : soup[a].tag \notin RemovedTags}
    /\ hpc' = "cleaned"
    /\ UNCHANGED << soup, main_content, markdown >>
    /\ UNCHANGED << urlVars, normVars, pdfVars, tableVars >>

\* lines 148-164: choose the root and convert it
ConvertRoot ==
    /\ hpc = "cleaned"
    /\ main_content' = SelectMainContent(soup, alive)
    /\ markdown' = Subtree(soup, alive, main_content')
    /\ hpc' = "done"
    /\ UNCHANGED << soup, alive >>
    /\ UNCHANGED << urlVars, normVars, pdfVars, tableVars >>

NextHtml ==
    \/ Decompose
    \/ ConvertRoot

(***************************************************************************)
(* Specifications                                                          *)
(***************************************************************************)

SpecUrl == InitUrl /\ [][NextUrl]_vars

SpecNorm == InitNorm /\ [][NextNorm]_vars

SpecPdf == InitPdf /\ [][NextPdf]_vars

SpecTable == InitTable /\ [][NextTable]_vars

SpecHtml == InitHtml /\ [][NextHtml]_vars

(***************************************************************************)
(* Properties of convert_url (SpecUrl)                                     *)
(***************************************************************************)

\* number of requests sent to the fallback service so far
MarkdownNewRequests ==
    Cardinality({k \in DOMAIN requests : requests[k] = "markdown_new"})

LastRequest == requests[Len(requests)]

\* sub occurs in msg as a contiguous piece
Contains(msg, sub) ==
    \E k \in 1..(Len(msg) - Len(sub) + 1) : SubSeq(msg, k, k + Len(sub) - 1) = sub

\* the direct response went to the markup branch (neither markdown nor pdf)
MarkupBranch ==
    /\ resp.kind = "response"
    /\ resp.content_type \notin {"text/markdown", "application/pdf"}

\* the call returned what the direct path produced
DirectSuccess ==
    /\ outcome.kind = "return"
    /\ outcome.src \in {"direct_markdown", "direct_pdf", "direct_html"}

TooShort == << "Conversion result too short" >>

\* C1: during one call of convert_url the fallback service is requested at
\* most once, whatever the flags and the outcomes of the attempts.
C1_FallbackAtMostOnce == MarkdownNewRequests <= 1

C3_PreferThenDirectError ==
    (prefer_markdown_new /\ e # NoError /\ pc = "done") =>
        /\ outcome = Raise(e)
        /\ MarkdownNewRequests = 1

\* C4: a direct response with a non-success status is a direct-path failure:
\* it is never the call's result, and with use_fallback the call ends with a
\* request to the fallback service.
C4_NonSuccessIsFailure ==
    (resp.kind = "response" /\ ~IsSuccess(resp.status)) =>
        /\ e # NoError
        /\ ~DirectSuccess
        /\ (use_fallback /\ pc = "done") => LastRequest = "markdown_new"

\* C5: with use_fallback and without prefer_markdown_new, after a direct
\* failure the fallback is requested; if it fails too the call raises one error
\* whose message contains the direct and the fallback error text, and if it
\* succeeds its result is returned.
C5_CombinedFailure ==
    (use_fallback /\ ~prefer_markdown_new /\ e # NoError /\ pc = "done") =>
        /\ LastRequest = "markdown_new"
        /\ IF fallback_error # NoError
           THEN /\ outcome.kind = "raise"
                /\ Contains(outcome.msg, e)
                /\ Contains(outcome.msg, fallback_error)
           ELSE /\ outcome.kind = "return"
                /\ outcome.src = "fallback"

\* the direct path and the fallback both failed and the call raised
C5_Witness ==
    /\ use_fallback /\ ~prefer_markdown_new
    /\ pc = "done"
    /\ e = TooShort
    /\ fallback_error = << "HTTPStatusError" >>
    /\ outcome.kind = "raise"

\* C6: without use_fallback a direct failure is raised as it is, and no request
\* to the fallback service follows the direct request.
C6_DirectErrorUnwrapped ==
    (~use_fallback /\ e # NoError) =>
        /\ LastRequest = "direct"
        /\ pc = "done" => outcome = Raise(e)

\* the direct path failed after a failed preferred attempt, fallback disallowed
C6_Witness ==
    /\ ~use_fallback /\ prefer_markdown_new
    /\ pc = "done"
    /\ e = << "ReadTimeout" >>
    /\ outcome.kind = "raise"

(***************************************************************************)
(* Properties of post_process_markdown (SpecNorm)                          *)
(***************************************************************************)

\* s has n consecutive newline characters somewhere
HasNewlineRun(s, n) == \E k \in 1..Len(s) : RunLen(s, k, {NL}) >= n

\* C7: post_process_markdown is idempotent: applied to its own output it
\* changes nothing.
C7_Idempotent == npc = "twice" => twice = once

\* C8: the output of post_process_markdown has no three consecutive blank
\* lines, that is no four consecutive newline characters.
C8_NoThreeBlankLines == npc \in {"once", "twice"} => ~HasNewlineRun(once, 4)

(***************************************************************************)
(* Properties of convert_pdf (SpecPdf)                                     *)
(***************************************************************************)

\* the pages whose text is not empty after stripping
TextPages == {k \in 1..Len(doc) : Strip(doc[k]) # <<>>}

\* what every page separator starts with once the output is stripped
SeparatorMark == << "-", "-", "-", NL, "*", "P", "a", "g", "e", SP >>

\* the positions of the output where a page separator starts
SeparatorsIn(s) ==
    {k \in 1..(Len(s) - Len(SeparatorMark) + 1) :
        SubSeq(s, k, k + Len(SeparatorMark) - 1) = SeparatorMark}

\* the page numbers the captions of the output's separators name
CaptionsIn(s) == {s[k + Len(SeparatorMark)] : k \in SeparatorsIn(s)}

\* C9 as stated: whatever mix of empty and non-empty pages, the output has one
\* separator less than there are pages with text, and none before the first
\* emitted text.
C9_SeparatorsStrictlyBetween ==
    (ppc = "done" /\ TextPages # {}) =>
        /\ Cardinality(SeparatorsIn(pdf_result)) = Cardinality(TextPages) - 1
        /\ 1 \notin SeparatorsIn(pdf_result)

\* C9 amended: a separator precedes the text of every non-empty page numbered
\* above 1 and of no other page; so there are n-1 separators when page 1 has
\* text, and n of them, the first before the first emitted text, when page 1
\* is empty.
C9_SeparatorBeforeLaterPages ==
    ppc = "done" =>
        /\ Cardinality(SeparatorsIn(pdf_result)) = Cardinality(TextPages \ {1})
        /\ CaptionsIn(pdf_result) = {Str(k) : k \in TextPages \ {1}}
        /\ 1 \in SeparatorsIn(pdf_result) <=> (TextPages # {} /\ 1 \notin TextPages)
        /\ 1 \in TextPages =>
             Cardinality(SeparatorsIn(pdf_result)) = Cardinality(TextPages) - 1

\* a document whose first page is empty and whose two later pages have text
C9_Witness ==
    /\ ppc = "done"
    /\ Len(doc) = 3
    /\ TextPages = {2, 3}
    /\ Cardinality(SeparatorsIn(pdf_result)) = 2

(***************************************************************************)
(* Properties of convert_table (SpecTable)                                 *)
(***************************************************************************)

\* a line made of pipes and dashes only, as the separator row is
IsSeparatorLine(line) ==
    /\ line # <<>>
    /\ \A k \in 1..Len(line) : line[k] \in {"|", "-"}

\* the "---" cells of a separator line
DashCells(line) ==
    Cardinality({k \in 1..(Len(line) - 4) :
        /\ line[k] = "|"
        /\ SubSeq(line, k + 1, k + 4) = << "-", "-", "-", "|" >>})

\* C10: a table with at least one row gets exactly one separator row, right
\* after the header row, with as many --- cells as the header row has cells.
C10_OneSeparatorOfHeaderWidth ==
    (tpc = "done" /\ Len(table) >= 1) =>
        LET lines == SplitLines(table_md)
        IN /\ Len(lines) = Len(table) + 1
           /\ {k \in 1..Len(lines) : IsSeparatorLine(lines[k])} = {2}
           /\ DashCells(lines[2]) = Len(table[1])
           /\ Len(lines[2]) = 4 * Len(table[1]) + (IF Len(table[1]) = 0 THEN 2 ELSE 1)

\* a three-row table whose later rows are narrower and wider than the header
C10_Witness ==
    /\ tpc = "done"
    /\ Len(table) = 3
    /\ Len(table[1]) = 1
    /\ Len(table[2]) = 0
    /\ Len(table[3]) = 2

(***************************************************************************)
(* Properties of convert_html (SpecHtml)                                   *)
(***************************************************************************)

\* the elements outside every script, style, nav, footer, header and aside
Kept ==
    {k \in 1..Len(soup) :
        \A a \in SelfAndAncestors(soup, k) : soup[a].tag \notin RemovedTags}

Tagged(tag) == {k \in alive : soup[k].tag = tag}

\* the elements whose class has one of the four words as a substring,
\* letter case respected
ClassedExactCase ==
    {k \in alive : \E w \in ClassWords : Contains(soup[k].class, w)}

\* the same with letter case ignored
ClassedAnyCase ==
    {k \in alive : \E w \in ClassWords : Contains(Lower(soup[k].class), w)}

Earliest(S) == CHOOSE k \in S : \A j \in S : k <= j

\* the first candidate that exists: main, article, classed, body, whole tree
FirstCandidate(classed) ==
    IF Tagged("main") # {} THEN Earliest(Tagged("main"))
    ELSE IF Tagged("article") # {} THEN Earliest(Tagged("article"))
    ELSE IF classed # {} THEN Earliest(classed)
    ELSE IF Tagged("body") # {} THEN Earliest(Tagged("body"))
    ELSE 0

\* only the chosen root's own subtree is converted
OnlyRootConverted ==
    \A n \in 1..Len(markdown) :
        /\ markdown[n] \in alive
        /\ main_content = 0 \/ main_content \in SelfAndAncestors(soup, markdown[n])

\* C11 as stated: after the listed elements are removed the root is the first
\* existing candidate among main, article, the first element whose class has
\* content, article, post or entry as a case-insensitive substring, body and
\* the whole tree, and no later candidate is used.
C11_RootClassAnyCase ==
    hpc = "done" =>
        /\ alive = Kept
        /\ main_content = FirstCandidate(ClassedAnyCase)
        /\ OnlyRootConverted

\* C11 amended: the same, the class test being a case-sensitive substring
\* search, so that a class such as Content or POST-body is no candidate.
C11_RootClassExactCase ==
    hpc = "done" =>
        /\ alive = Kept
        /\ main_content = FirstCandidate(ClassedExactCase)
        /\ OnlyRootConverted

\* an element of class POST-body comes first and the body after it is chosen
C11_Witness ==
    /\ hpc = "done"
    /\ Len(soup) = 3
    /\ soup[1].class = << "P", "O", "S", "T", "-", "b", "o", "d", "y" >>
    /\ soup[2].tag = "body"
    /\ soup[3].tag = "nav"
    /\ alive = {1, 2}
    /\ main_content = 2
    /\ markdown = << 2 >>

====
